---- MODULE Spec2Model ----
(***************************************************************************)
(* Model of the generic form engine DomainForm                             *)
(* (src/src/components/domain/DomainFormPage.tsx) driven by the form       *)
(* configurations of src/src/config/forms: mode determination, dependency  *)
(* and entity loading, field-connection propagation with asynchronous      *)
(* calculations, submission, and the render decision.                      *)
(***************************************************************************)
EXTENDS Integers, Sequences, FiniteSets, TLC

(***************************************************************************)
(* JavaScript values.  Every value is a record [t, v]: t is the result of  *)
(* typeof, v a printable payload, so that values of different types can be *)
(* compared.                                                               *)
(***************************************************************************)
Str(s) == [t |-> "string", v |-> s]
Num(s) == [t |-> "number", v |-> s]
Undef == [t |-> "undefined", v |-> "undefined"]
Null == [t |-> "object", v |-> "null"]
NaN == [t |-> "number", v |-> "NaN"]

\* x === y of JavaScript: NaN differs from everything, itself included.
StrictEq(x, y) == x = y /\ x # NaN

\* Boolean(x): the falsy values are undefined, null, "", 0 and NaN.
Truthy(x) == x \notin {Undef, Null, Str(""), Num("0"), NaN}

\* x ?? y
Coalesce(x, y) == IF x \in {Undef, Null} THEN y ELSE x

\* typeof x
TypeOf(x) == x.t

\* String.prototype.toLowerCase on the texts the configurations hold.
ToLowerCase(s) ==
  CASE s = "EUR" -> "eur"
    [] s = "USD" -> "usd"
    [] s = "Euro" -> "euro"
    [] s = "US Dollar" -> "us dollar"
    [] s = "PT" -> "pt"
    [] s = "Portugal" -> "portugal"
    [] s = "pt-PT" -> "pt-pt"
    [] s = "K1" -> "k1"
    [] s = "L1" -> "l1"
    [] s = "K2" -> "k2"
    [] s = "L2" -> "l2"
    [] s = "K4" -> "k4"
    [] OTHER -> s

\* The decimal texts parseFloat reads as a number in this model.
NumericTexts == {"0", "1", "2", "3"}

\* parseFloat(value as string)
ParseFloat(x) ==
  IF x.t = "number" THEN x
  ELSE IF x.t = "string" /\ x.v \in NumericTexts THEN Num(x.v)
  ELSE NaN

\* transform.input of rateToEuro: parseFloat, NaN replaced by 0.
ParseNumberOrZero(x) == IF ParseFloat(x) = NaN THEN Num("0") ELSE ParseFloat(x)

\* Property access row[f]: undefined when the row has no such key.
Prop(row, f) == IF f \in DOMAIN row THEN row[f] ELSE Undef

\* The set of elements of a sequence.
Range(s) == {s[i] : i \in DOMAIN s}

(***************************************************************************)
(* Form configurations (DomainFormConfig).                                 *)
(***************************************************************************)
\* A FieldConfig: component is the widget kind, transform is "none" or the
\* name of its transform.input, immutable is disabled(isEditMode) = isEditMode,
\* dependencyKey "" is none.
Field(name, defaultValue, component, transform, immutable, dependencyKey) ==
  [name |-> name, defaultValue |-> defaultValue, component |-> component,
   transform |-> transform, immutable |-> immutable,
   dependencyKey |-> dependencyKey]

\* The lookup table of the currency connections.
currencyData ==
  << [code |-> Str("EUR"), name |-> Str("Euro"), symbol |-> Str("euro-sign")],
     [code |-> Str("USD"), name |-> Str("US Dollar"), symbol |-> Str("$")] >>

\* The lookup table of the country connections.
countryData ==
  << [code |-> Str("PT"), name |-> Str("Portugal"), locale |-> Str("pt-PT")] >>

rateCalculation ==
  [targetField |-> "rateToEuro", calculationTriggerField |-> "code",
   errorMessage |-> "Failed to automatically fetch currency rate."]

Connection(sourceField, targetFields, lookupSet, clearTargetsOnNoMatch, calculations) ==
  [sourceField |-> sourceField, targetFields |-> targetFields,
   lookupSet |-> lookupSet, clearTargetsOnNoMatch |-> clearTargetsOnNoMatch,
   calculations |-> calculations]

currencyConnections ==
  << Connection("code", <<"name", "symbol", "stripeName", "rateToEuro">>,
                currencyData, "true", <<rateCalculation>>),
     Connection("name", <<"code", "symbol", "stripeName", "rateToEuro">>,
                currencyData, "true", <<rateCalculation>>),
     Connection("symbol", <<"code", "name", "stripeName", "rateToEuro">>,
                currencyData, "true", <<rateCalculation>>),
     Connection("stripeName", <<"code", "name", "symbol", "rateToEuro">>,
                currencyData, "true", <<rateCalculation>>) >>

currencyFields ==
  << Field("name", Str(""), "ComboBox", "none", FALSE, ""),
     Field("code", Str(""), "ComboBox", "none", TRUE, ""),
     Field("symbol", Str(""), "ComboBox", "none", FALSE, ""),
     Field("rateToEuro", Num("0"), "Input", "parseNumberOrZero", FALSE, ""),
     Field("stripeName", Str(""), "ComboBox", "none", FALSE, "") >>

countryConnections ==
  << Connection("code", <<"name", "locale">>, countryData, "true", <<>>),
     Connection("name", <<"code", "locale">>, countryData, "true", <<>>),
     Connection("locale", <<"code", "name">>, countryData, "true", <<>>) >>

countryFields ==
  << Field("name", Str(""), "ComboBox", "none", FALSE, ""),
     Field("code", Str(""), "ComboBox", "none", TRUE, ""),
     Field("locale", Str(""), "ComboBox", "none", FALSE, ""),
     Field("currencyCode", Str(""), "ComboBox", "none", FALSE, "currencies") >>

\* A configuration that uses the optional members of FieldConnection and
\* DomainFormConfig the two shipped configurations leave out: a source listed
\* among its own targets, clearTargetsOnNoMatch false and omitted, a field
\* with no default, a row without the calculation trigger, two dependencies,
\* rows that agree on a source value (up to case for texts), a source that
\* is a number.
sampleData ==
  << [key |-> Str("K1"), amount |-> Str("2")],
     [label |-> Str("L1"), amount |-> Num("3")],
     [key |-> Str("K2"), label |-> Str("L2")],
     [key |-> Str("K4"), label |-> Str("l2"), amount |-> Num("3")] >>

sampleCalculation ==
  [targetField |-> "amount", calculationTriggerField |-> "key",
   errorMessage |-> ""]

sampleConnections ==
  << Connection("key", <<"key", "label", "amount">>, sampleData, "false", <<>>),
     Connection("label", <<"amount">>, sampleData, "omitted",
                <<sampleCalculation>>),
     Connection("amount", <<"label">>, sampleData, "false", <<>>) >>

sampleFields ==
  << Field("key", Str(""), "Input", "none", FALSE, ""),
     Field("label", Undef, "Select", "none", FALSE, "options"),
     Field("amount", Num("1"), "Input", "parseNumberOrZero", FALSE, "") >>

Configs == {"currency", "country", "sample"}

\* config.fields
Fields(c) ==
  CASE c = "currency" -> currencyFields
    [] c = "country" -> countryFields
    [] OTHER -> sampleFields

\* config.fieldConnections
FieldConnections(c) ==
  CASE c = "currency" -> currencyConnections
    [] c = "country" -> countryConnections
    [] OTHER -> sampleConnections

\* The keys of config.dependencies.
Dependencies(c) ==
  CASE c = "currency" -> {}
    [] c = "country" -> {"currencies"}
    [] OTHER -> {"options", "units"}

FieldNames(c) == {Fields(c)[i].name : i \in DOMAIN Fields(c)}

\* getFieldConfig(fieldName): config.fields.find(f => f.name === fieldName)
getFieldConfig(c, f) ==
  Fields(c)[CHOOSE i \in DOMAIN Fields(c) : Fields(c)[i].name = f]

\* fieldConfig.transform.input(x), the identity when the field has none.
TransformInput(c, f, x) ==
  IF getFieldConfig(c, f).transform = "parseNumberOrZero"
  THEN ParseNumberOrZero(x) ELSE x

\* defaultValues of useForm: every field's defaultValue.
defaultValues(c) == [f \in FieldNames(c) |-> getFieldConfig(c, f).defaultValue]

\* Variant: edit mode for every non-empty identifier, "new" included.
isEditModeOf_NoNewCheck(i) == Truthy(i)

\* isEditMode = Boolean(id && id !== "new")
isEditModeOf(i) == Truthy(i) /\ i # Str("new")

(***************************************************************************)
(* The form store of react-hook-form: values, the defaults isDirty is      *)
(* measured against, and isDirty.                                          *)
(***************************************************************************)
\* setValue(path, x, {shouldDirty}): isDirty is recomputed only on request.
setValue(fm, f, x, shouldDirty) ==
  LET vals == [fm.values EXCEPT ![f] = x]
  IN [fm EXCEPT !.values = vals,
                !.isDirty = IF shouldDirty THEN vals # fm.defaultValues ELSE @]

\* form.reset(formData): the data become the values and the defaults.
reset(fm, formData) ==
  [values |-> formData, defaultValues |-> formData, isDirty |-> FALSE]

(***************************************************************************)
(* processConnection: lookup, target fan-out, reset on no match.           *)
(***************************************************************************)
\* The predicate of lookupSet.find.
RowMatches(conn, row, sourceValue) ==
  LET itemValue == Prop(row, conn.sourceField)
  IN IF TypeOf(sourceValue) = "string" /\ TypeOf(itemValue) = "string"
     THEN ToLowerCase(itemValue.v) = ToLowerCase(sourceValue.v)
     ELSE StrictEq(itemValue, sourceValue)

\* Variant: the last matching row is taken.
FindMatch_LastMatch(conn, sourceValue) ==
  LET hits == {i \in DOMAIN conn.lookupSet :
                 RowMatches(conn, conn.lookupSet[i], sourceValue)}
  IN IF hits = {} THEN 0 ELSE CHOOSE i \in hits : \A j \in hits : i >= j

\* lookupSet.find: the index of the first matching row, 0 when there is none.
FindMatch(conn, sourceValue) ==
  LET hits == {i \in DOMAIN conn.lookupSet :
                 RowMatches(conn, conn.lookupSet[i], sourceValue)}
  IN IF hits = {} THEN 0 ELSE CHOOSE i \in hits : \A j \in hits : i <= j

\* Variant: the matched row is not consulted.
FinalValueToSet_DefaultOnly(c, row, f) ==
  TransformInput(c, f, getFieldConfig(c, f).defaultValue)

\* finalValueToSet of a target field on a match.
FinalValueToSet(c, row, f) ==
  LET defaultValueFromConfig == getFieldConfig(c, f).defaultValue
      valueFromMatch == Prop(row, f)
      chosen == IF valueFromMatch # Undef THEN valueFromMatch
                ELSE defaultValueFromConfig
      fallback == CASE TypeOf(defaultValueFromConfig) = "number" -> Num("0")
                    [] TypeOf(defaultValueFromConfig) = "boolean" ->
                         [t |-> "boolean", v |-> "false"]
                    [] OTHER -> Str("")
  IN TransformInput(c, f, IF chosen = Undef THEN fallback ELSE chosen)

\* connection.targetFields.forEach of the match branch, from index i on.
RECURSIVE UpdateTargets(_, _, _, _, _)
UpdateTargets(c, conn, row, fm, i) ==
  IF i > Len(conn.targetFields) THEN fm
  ELSE LET f == conn.targetFields[i]
           x == FinalValueToSet(c, row, f)
       IN IF f = conn.sourceField THEN UpdateTargets(c, conn, row, fm, i + 1)
          ELSE IF ~StrictEq(fm.values[f], x)
          THEN UpdateTargets(c, conn, row, setValue(fm, f, x, TRUE), i + 1)
          ELSE UpdateTargets(c, conn, row, fm, i + 1)

\* The targetField of every calculation of a connection, in order.
CalculationTargets(conn) ==
  [i \in DOMAIN conn.calculations |-> conn.calculations[i].targetField]

\* allTargets of the no-match branch.
AllTargets(conn) == conn.targetFields \o CalculationTargets(conn)

\* The value a target is reset to on no match.
ResetValue(c, f) ==
  TransformInput(c, f, Coalesce(getFieldConfig(c, f).defaultValue, Null))

\* allTargets.forEach of the no-match branch, from index i on; st holds the
\* form store and calculationStateRef.current.
RECURSIVE ClearTargets(_, _, _, _)
ClearTargets(c, conn, st, i) ==
  IF i > Len(AllTargets(conn)) THEN st
  ELSE LET f == AllTargets(conn)[i]
           x == ResetValue(c, f)
           fm == IF ~StrictEq(st.form.values[f], x)
                 THEN setValue(st.form, f, x, TRUE) ELSE st.form
           ref == IF f \in Range(CalculationTargets(conn))
                  THEN [st.ref EXCEPT ![f] = "idle"] ELSE st.ref
       IN IF f = conn.sourceField THEN ClearTargets(c, conn, st, i + 1)
          ELSE ClearTargets(c, conn, [st EXCEPT !.form = fm, !.ref = ref], i + 1)

(***************************************************************************)
(* runCalculations.  st is the state the loop works on: the form store,    *)
(* calculationStateRef.current (ref), the local newCalculationState (new), *)
(* whether ref and new are one object (aliased), the toasts raised, and    *)
(* where the loop stands (pc "await" at calculation idx, or "done").       *)
(***************************************************************************)
\* newCalculationState[f] = status, seen through the ref when aliased.
SetStatus(st, f, status) ==
  [st EXCEPT !.new[f] = status,
             !.ref[f] = IF st.aliased THEN status ELSE @]

\* The trigger value is present.
TriggerPresent(inputValue) == inputValue \notin {Undef, Null, Str("")}

\* Variant: the trigger value is read from the live form.
InputValue_LiveForm(row, calc, fm) == fm.values[calc.calculationTriggerField]

\* const inputValue = match[calculationTriggerField]
InputValue(row, calc, fm) == Prop(row, calc.calculationTriggerField)

\* The for loop from calculation i on, up to the next await or to its end;
\* input is the value the awaited calculator was called with.
RECURSIVE RunCalculationsFrom(_, _, _, _, _)
RunCalculationsFrom(c, conn, row, i, st) ==
  IF i > Len(conn.calculations)
  THEN [st EXCEPT !.ref = st.new, !.aliased = TRUE, !.pc = "done", !.idx = 0]
  ELSE LET calc == conn.calculations[i]
           f == calc.targetField
           inputValue == InputValue(row, calc, st.form)
       IN IF TriggerPresent(inputValue)
          THEN LET marked == [st.new EXCEPT ![f] = "pending"]
               IN [st EXCEPT !.new = marked, !.ref = marked, !.aliased = TRUE,
                             !.pc = "await", !.idx = i, !.input = inputValue]
          ELSE RunCalculationsFrom(c, conn, row, i + 1,
                 SetStatus(
                   [st EXCEPT !.form =
                      setValue(st.form, f,
                               Coalesce(getFieldConfig(c, f).defaultValue, Null),
                               FALSE)],
                   f, "idle"))

\* Variant: a null or undefined result is written as it is.
ValueOfResult_Raw(c, f, result) == result

\* The value written when the calculator returned result.
ValueOfResult(c, f, result) ==
  IF result \in {Null, Undef}
  THEN Coalesce(getFieldConfig(c, f).defaultValue, Null)
  ELSE TransformInput(c, f, result)

\* The status recorded when the calculator returned result.
StatusOfResult(result) == IF result \in {Null, Undef} THEN "error" ELSE "success"

\* Variant: the targets are fanned out again after the calculation write.
CalculatorReturned_ThenTargets(c, conn, i, st, result) ==
  LET f == conn.calculations[i].targetField
      written == SetStatus(
                   [st EXCEPT !.form =
                      setValue(st.form, f, ValueOfResult(c, f, result), TRUE)],
                   f, StatusOfResult(result))
  IN [written EXCEPT
        !.form = UpdateTargets(c, conn, conn.lookupSet[st.row], written.form, 1)]

\* The continuation of await calculator(inputValue) that returned result.
CalculatorReturned(c, conn, i, st, result) ==
  LET f == conn.calculations[i].targetField
  IN SetStatus(
       [st EXCEPT !.form = setValue(st.form, f, ValueOfResult(c, f, result), TRUE)],
       f, StatusOfResult(result))

\* The catch block of a calculator that threw.
CalculatorThrew(c, conn, i, st) ==
  LET f == conn.calculations[i].targetField
      marked == SetStatus(st, f, "error")
  IN [marked EXCEPT
        !.toasts = @ \cup {"Calculation Error"},
        !.form = setValue(st.form, f,
                          Coalesce(getFieldConfig(c, f).defaultValue, Null), FALSE)]

(***************************************************************************)
(* The backend and the user, as far as the form sees them.                 *)
(***************************************************************************)
\* The identifier of the record the edit route of a configuration names.
EditId(c) ==
  CASE c = "currency" -> Str("USD")
    [] c = "country" -> Str("PT")
    [] OTHER -> Str("7")

\* The values of the identifier route parameter the component can be mounted
\* with: missing, empty, "new", or the identifier of a record.
IdParams(c) == {Undef, Str(""), Str("new"), EditId(c)}

\* The values the routes of App give the parameter: the "new" routes have no
\* parameter, the ":id" / ":code" routes carry the identifier of a record.
RouteParams(c) == {Undef, EditId(c)}

\* transformApiToForm applied to the record fetchOne resolves with.
FormDataOfEntity(c) ==
  CASE c = "currency" ->
         [name |-> Str("US Dollar"), code |-> Str("USD"), symbol |-> Str("$"),
          rateToEuro |-> Num("2"), stripeName |-> Str("usd")]
    [] c = "country" ->
         [name |-> Str("Portugal"), code |-> Str("PT"), locale |-> Str("pt-PT"),
          currencyCode |-> Str("EUR")]
    [] OTHER -> [key |-> Str("K1"), label |-> Str("L1"), amount |-> Num("2")]

\* The type attribute of the Input of a field (componentProps.type).
InputType(c, f) ==
  IF (c = "currency" /\ f = "rateToEuro") \/ (c = "sample" /\ f = "amount")
  THEN "number" ELSE "text"

\* Variant: the number input coerces what it cannot parse to 0.
OnChange_ZeroWhenUnparsed(c, f, text) ==
  IF getFieldConfig(c, f).component = "Input" /\ InputType(c, f) = "number"
  THEN ParseNumberOrZero(Str(text))
  ELSE Str(text)

\* What the widget of field f passes to formField.onChange when the user
\* leaves text in it: a number input passes NaN for the empty text and
\* parseFloat of any other, every other widget passes the text.
OnChange(c, f, text) ==
  IF getFieldConfig(c, f).component = "Input" /\ InputType(c, f) = "number"
  THEN IF text = "" THEN NaN ELSE ParseFloat(Str(text))
  ELSE Str(text)

\* The texts a user leaves in the widget of a field.  A number input hands
\* over the empty text for whatever is not a number.
UserInputs(c, f) ==
  CASE c = "currency" /\ f = "code" -> {"USD", "usd", "XXX"}
    [] c = "currency" /\ f = "name" -> {"Euro"}
    [] c = "currency" /\ f = "symbol" -> {"$"}
    [] c = "currency" /\ f = "stripeName" -> {"usd"}
    [] c = "currency" /\ f = "rateToEuro" -> {"3", ""}
    [] c = "country" /\ f = "code" -> {"PT", "ZZ"}
    [] c = "country" /\ f = "name" -> {"portugal", "Zed"}
    [] c = "country" /\ f = "locale" -> {"pt-PT"}
    [] c = "country" /\ f = "currencyCode" -> {"EUR"}
    [] c = "sample" /\ f = "key" -> {"K1", "K9"}
    [] c = "sample" /\ f = "label" -> {"L1", "L2", "L9"}
    [] OTHER -> {"3", ""}

\* What a calculator can resolve with: a number, a numeric text, null or
\* undefined.
CalculatorResults == {Num("2"), Str("3"), Null, Undef}

\* What the calculators of a configuration resolve with: the calculator of
\* rateCalculation resolves with what getCurrencyRate does, a number or null.
CalculatorResultsOf(c) ==
  IF c = "currency" THEN {Num("2"), Null} ELSE CalculatorResults

\* The calculators of a configuration can reject: getCurrencyRate catches
\* every error and resolves with null.
CalculatorMayThrow(c) == c # "currency"

\* The toasts a calculator raises itself before it resolves with result:
\* the calculator of rateCalculation warns when the rate is null.
CalculatorToasts(c, result) ==
  IF c = "currency" /\ result = Null THEN {"Rate Not Found"} ELSE {}

\* The zod schema of a configuration, on the values of this model.
SchemaValid(c, vals) ==
  CASE c = "currency" ->
         /\ vals.name \in {Str("Euro"), Str("US Dollar"), Str("Zed")}
         /\ vals.code \in {Str("EUR"), Str("USD"), Str("XXX")}
         /\ vals.symbol.t = "string" /\ vals.symbol # Str("")
         /\ vals.rateToEuro.t = "number" /\ vals.rateToEuro # NaN
         /\ vals.stripeName.t = "string"
    [] c = "country" ->
         /\ vals.name \in {Str("Portugal"), Str("portugal"), Str("Zed")}
         /\ vals.code \in {Str("PT"), Str("ZZ")}
         /\ vals.locale = Str("pt-PT")
         /\ vals.currencyCode = Str("EUR")
    [] OTHER -> vals.key.t = "string" /\ vals.key # Str("")

\* transformFormToApi throws: only the sample configuration's does, on a
\* label that is not a text.
TransformFormToApiThrows(c, vals) == c = "sample" /\ vals.label.t # "string"

\* Messages of the errors the backend calls reject with.
LoadErrorMessage == Str("not found")
SaveErrorMessage == Str("save rejected")
DepsErrorMessage == Str("dependencies unavailable")

(***************************************************************************)
(* The API client (src/src/services/api.ts).  A text is the sequence of    *)
(* its parts, "" the empty sequence.  A property of the response body is   *)
(* [has, v]: whether the body has it, and its value.                       *)
(***************************************************************************)
NoProp == [has |-> FALSE, v |-> << >>]
Has(v) == [has |-> TRUE, v |-> v]

\* Array.prototype.join(sep) on an array of texts.
RECURSIVE Join(_, _)
Join(arr, sep) ==
  IF arr = << >> THEN << >>
  ELSE IF Len(arr) = 1 THEN << arr[1] >>
  ELSE << arr[1], sep >> \o Join(Tail(arr), sep)

\* The client functions, by what they return from the parsed envelope:
\* result.data, the envelope itself, or result.data.stock.
DataFunctions ==
  {"fetchProducts", "fetchCollections", "fetchProductById",
   "fetchCollectionById", "createProduct", "updateProduct",
   "createCollection", "updateCollection", "fetchCountries",
   "fetchCountryByCode", "createCountry", "updateCountry", "fetchCurrencies",
   "fetchCurrencyByCode", "createCurrency", "updateCurrency",
   "adminFetchCarts", "adminFetchCartById", "adminFetchUsers",
   "adminFetchUserById", "adminFetchOrders", "adminFetchOrderById",
   "adminUpdateOrder", "adminCancelOrder"}
EnvelopeFunctions ==
  {"deleteProduct", "deleteCollection", "deleteCountry", "deleteCurrency",
   "adminDeleteUser", "triggerCheckExpiredSessions", "insertTestData",
   "setupStockBucket"}
StockFunctions == {"getProductStock"}
ApiFunctions == DataFunctions \cup EnvelopeFunctions \cup StockFunctions

\* The HTTP statuses the backend answers with.
Statuses == {200, 201, 204, 400, 404, 500}

\* response.ok
Ok(status) == status \in 200..299

\* The response bodies: not JSON at all ("none"), the JSON value null, or a
\* JSON object with or without message, issues and data (data being an
\* entity or, for the stock endpoint, an object with a stock property).
Bodies ==
  [json : {"none", "null"}, message : {NoProp}, issues : {NoProp},
   data : {"absent"}]
  \cup
  [json : {"object"},
   message : {NoProp, Has(<< >>), Has(<< "Not found" >>)},
   issues : {NoProp, Has(<< >>), Has(<< << "bad code" >> >>),
             Has(<< << "bad code" >>, << "bad name" >> >>)},
   data : {"absent", "entity", "stock"}]

\* {}
EmptyObject ==
  [json |-> "object", message |-> NoProp, issues |-> NoProp, data |-> "absent"]

\* Flattening of the parts of the joined issues into one text.
RECURSIVE Flat(_)
Flat(parts) == IF parts = << >> THEN << >> ELSE Head(parts) \o Flat(Tail(parts))

\* `HTTP error! status: ${response.status}`
StatusFallback(status) == << "HTTP error! status: ", ToString(status) >>

\* What a call ends with: a thrown error (its class and message) or a
\* returned value ("undefined", "null", "data", "envelope" or "stock", of
\* the body it was taken from).
Thrown(class, message) ==
  [threw |-> TRUE, class |-> class, message |-> message, value |-> "nothing",
   of |-> EmptyObject]
Returned(value, body) ==
  [threw |-> FALSE, class |-> "", message |-> << >>, value |-> value,
   of |-> body]

\* The error message of handleResponse ignoring the issues of the body.
ErrorMessage_IgnoresIssues(responseData, status) ==
  IF responseData.message.has /\ responseData.message.v # << >>
  THEN responseData.message.v
  ELSE StatusFallback(status)

\* responseData.message || (responseData.issues &&
\* responseData.issues.join(", ")) || `HTTP error! status: ...`
ErrorMessage(responseData, status) ==
  IF responseData.message.has /\ responseData.message.v # << >>
  THEN responseData.message.v
  ELSE IF responseData.issues.has
          /\ Flat(Join(responseData.issues.v, << ", " >>)) # << >>
       THEN Flat(Join(responseData.issues.v, << ", " >>))
       ELSE StatusFallback(status)

\* handleResponse: the parsed body ({} when it is not JSON), or the error
\* thrown.  Reading a property of null throws a TypeError.
handleResponse(response) ==
  LET responseData == IF response.body.json = "none" THEN EmptyObject
                      ELSE response.body
  IN  IF ~Ok(response.status)
      THEN IF responseData.json = "null"
           THEN Thrown("TypeError", << "Cannot read properties of null" >>)
           ELSE Thrown("Error", ErrorMessage(responseData, response.status))
      ELSE Returned(IF responseData.json = "null" THEN "null" ELSE "envelope",
                    responseData)

\* A client function returning result.data whatever it was asked for.
FunctionReturns_AlwaysData(fn, result) ==
  IF result.of.json = "null"
  THEN Thrown("TypeError", << "Cannot read properties of null" >>)
  ELSE IF result.of.data = "absent" THEN Returned("undefined", result.of)
  ELSE Returned("data", result.of)

\* The return statement of a client function on what handleResponse returned.
FunctionReturns(fn, result) ==
  IF fn \in EnvelopeFunctions THEN result
  ELSE IF result.of.json = "null"
  THEN Thrown("TypeError", << "Cannot read properties of null" >>)
  ELSE IF fn \in DataFunctions
  THEN IF result.of.data = "absent" THEN Returned("undefined", result.of)
       ELSE Returned("data", result.of)
  ELSE IF result.of.data = "absent"
  THEN Thrown("TypeError", << "Cannot read properties of undefined" >>)
  ELSE IF result.of.data = "stock" THEN Returned("stock", result.of)
  ELSE Returned("undefined", result.of)

\* A client function on the response of fetch: try { handleResponse; return }
\* catch (error) { throw error }.
ClientFunction(fn, response) ==
  LET result == handleResponse(response)
  IN  IF result.threw THEN result ELSE FunctionReturns(fn, result)

NoResponse == [status |-> 0, body |-> EmptyObject]
NoCall ==
  [pc |-> "idle", fn |-> "", response |-> NoResponse,
   outcome |-> Returned("nothing", EmptyObject)]

(***************************************************************************)
(* DomainDetailPage.  A text on screen is named by where it comes from.    *)
(***************************************************************************)
\* The detail configurations: messages.loadError and messages.notFound, ""
\* where the configuration has none.
DetailConfigs == {"order", "user"}
DetailMessages(c) ==
  IF c = "order" THEN [loadError |-> "loadError", notFound |-> ""]
  ELSE [loadError |-> "loadError", notFound |-> "notFound"]

\* params[keyParam]: undefined when the route has no such parameter.
DetailIds == {Undef, Str("A"), Str("B")}

\* What fetchOne rejects with: an Error with a message, an Error with an
\* empty message, an Error carrying status 404, or a value that is no Error.
Rejections == {"message", "empty", "status404", "nonError"}

\* if (!id): the effect returns without calling loadEntity.  Here it never does.
EffectSkipsFetch_Never(i) == FALSE

\* if (!id): the effect returns without calling loadEntity.
EffectSkipsFetch(i) == ~Truthy(i)

\* The load effect on the state d of the page, run number n.
DetailEffect(d, n) ==
  IF EffectSkipsFetch(d.id)
  THEN [d EXCEPT !.error = "missingKey", !.loading = FALSE, !.called = FALSE]
  ELSE [d EXCEPT !.loading = TRUE, !.error = "none", !.data = Undef,
                 !.fetches = @ \cup {[id |-> d.id, run |-> n]},
                 !.calls = @ \cup {d.id}, !.called = TRUE]

\* The catch block of loadEntity: the error text set, "keep" when none is.
CaughtError(c, rejection) ==
  IF rejection = "nonError" THEN "keep"
  ELSE IF rejection = "status404" /\ DetailMessages(c).notFound # ""
  THEN DetailMessages(c).notFound
  ELSE IF rejection = "empty"
  THEN (IF DetailMessages(c).loadError # "" THEN DetailMessages(c).loadError
        ELSE "unknown")
  ELSE "message"

\* useState(true), useState(null), useState(null) and nothing in flight.
DetailRendered(c, i) ==
  [mounted |-> TRUE, config |-> c, id |-> i, loading |-> TRUE,
   error |-> "none", data |-> Undef, fetches |-> {}, calls |-> {},
   called |-> FALSE, toasts |-> 0, runs |-> 1]

NoDetailPage ==
  [mounted |-> FALSE, config |-> "order", id |-> Undef, loading |-> TRUE,
   error |-> "none", data |-> Undef, fetches |-> {}, calls |-> {},
   called |-> FALSE, toasts |-> 0, runs |-> 0]
(***************************************************************************)
(* The list pages: ProductsPage, CountriesPage, CurrenciesPage, UsersPage, *)
(* OrdersPage, CartsPage.  Rows are numbered 1, 2, ... in server order.    *)
(***************************************************************************)
ListPages == {"products", "countries", "currencies", "users", "orders", "carts"}

\* The pages with PaginationControls and a load effect on [currentPage].
Paginated(page) == page \in {"users", "orders", "carts"}

\* The pages with a delete button and a confirmation dialog.
Deletable(page) == page \in {"products", "countries", "currencies", "users"}

PAGE_SIZE == 10

\* The counts the server reports.
Counts == {0, 5, 10, 25}

\* Math.floor(count / size), in place of the ceiling.
Ceil_RoundsDown(count, size) == count \div size

\* Math.ceil(count / size)
Ceil(count, size) == (count + size - 1) \div size

\* The rows the server holds on page p when it reports count rows: the
\* first two of the page, unless deleted.
ServerRows(p, count, deleted) ==
  {r \in {PAGE_SIZE * (p - 1) + 1, PAGE_SIZE * (p - 1) + 2} : r <= count}
    \ deleted

\* A filter dropping the first row, whichever row the call was for.
RowsAfterDelete_DropsFirst(rows, row) ==
  rows \ {CHOOSE r \in rows \cup {row} : \A q \in rows : r <= q}

\* prev.filter((p) => p.id !== productToDelete.id)
RowsAfterDelete(rows, row) == {r \in rows : r # row}

\* What the last step of a list page did: its kind, the page and count of a
\* settled fetch, the row of a settled delete.
ListStep(kind, p, count, row) ==
  [kind |-> kind, page |-> p, count |-> count, row |-> row]

\* The useState initial values of a list page; fetches and deletes are the
\* calls in flight, counts the counts the server has reported so far.
ListRendered(page) ==
  [mounted |-> TRUE, page |-> page, rows |-> {}, loading |-> TRUE,
   error |-> FALSE, currentPage |-> 1, hasMorePages |-> FALSE,
   totalPages |-> 0, toDelete |-> 0, isDeleting |-> FALSE, fetches |-> {},
   deletes |-> {}, deleted |-> {}, fetchCalls |-> 0, deleteCalls |-> 0,
   loaded |-> FALSE, clicks |-> 0, counts |-> {},
   last |-> ListStep("mount", 0, 0, 0)]

\* The load effect: setLoading(true), setError(null), and the fetch of the
\* page currentPage of this render.
LoadEffect(l) ==
  [l EXCEPT !.loading = TRUE, !.error = FALSE,
            !.fetches = @ \cup {[page |-> l.currentPage, call |-> l.fetchCalls + 1]},
            !.fetchCalls = @ + 1]

NoListPage == [ListRendered("products") EXCEPT !.mounted = FALSE]

\* The props given to PaginationControls.
canGoPrev(l) == l.currentPage > 1
canGoNext(l) == l.hasMorePages

(***************************************************************************)
(* Bounds.                                                                 *)
(***************************************************************************)
\* Events the user causes on one form instance: changes of a field value,
\* changes of the identifier route parameter, submissions.
MaxEvents == 3

\* Runs of the load effect of a detail page (the first and those after a
\* change of the route parameter).
MaxRuns == 3

\* Clicks of the user on a list page (Next, Previous, delete, confirm,
\* cancel).
MaxClicks == 3

(***************************************************************************)
(* State.                                                                  *)
(***************************************************************************)
VARIABLES
  cfg,                       \* the configuration the form was given
  id,                        \* params[keyParam]
  mounted,                   \* the component is mounted
  formState,                 \* the FormState of useState
  form,                      \* the react-hook-form store
  isProcessingConnectionRef, \* isProcessingConnectionRef.current
  calculationStateRef,       \* calculationStateRef.current
  cycles,                    \* the processConnection calls awaiting a calculator
  entityFetches,             \* the fetchOne calls in flight, with their isMounted
  depsLoad,                  \* loadDependencies: its isMounted, fetches, Promise.all
  save,                      \* the create/update call of onSubmit in flight
  calls,                     \* history: the backend calls issued
  outcomes,                  \* history: how the create/update calls settled
  engineStarts,              \* history: connections started by engine writes
  toasts,                    \* history: the toasts raised
  navigated,                 \* history: navigate(config.routes.list) was called
  lastStep,                  \* history: what the last step did
  events,                    \* history: number of events the user caused
  api,                       \* one call of an API client function
  detail,                    \* the DomainDetailPage component
  list                       \* a list page component

\* The state of DomainForm.
formVars ==
  << cfg, id, mounted, formState, form, isProcessingConnectionRef,
     calculationStateRef, cycles, entityFetches, depsLoad, save, calls,
     outcomes, engineStarts, toasts, navigated, lastStep, events >>

\* The state of the API client, the detail page and the list pages.
pageVars == << api, detail, list >>

vars == << formVars, pageVars >>

isEditMode == isEditModeOf(id)

NoStatus(c) == [f \in FieldNames(c) |-> "undefined"]

\* A step that was a change event of the user: a Step with the text the user
\* left in the widget.
ChangeStep(field, conn, row, ran, text) ==
  [kind |-> "change", field |-> field, conn |-> conn, row |-> row, ran |-> ran,
   touched |-> {}, text |-> text]

\* What a step did: its kind ("change", "calculationSuccess",
\* "calculationError", "dropped", "submit" (a create/update call was issued
\* with the values of the form) or "other"), the field changed or calculated, the connection
\* and matched row (0: none) of the propagation cycle it ran, how far the
\* cycle got ("none", "ignored", "await", "done"), and the fields written by
\* others while that cycle was awaiting a calculator.
Step(kind, field, conn, row, ran, touched) ==
  [kind |-> kind, field |-> field, conn |-> conn, row |-> row, ran |-> ran,
   touched |-> touched]

\* The useState initializer of formState.
InitialFormState(c, i) ==
  [loading |-> isEditModeOf(i),
   saving |-> FALSE,
   error |-> Null,
   loadingDeps |-> Dependencies(c) # {},
   depsError |-> Null,
   dependencyData |-> {},
   calculationState |-> NoStatus(c)]

\* updateFormState of the dependency effect when it starts.
DepsEffectState(c, fs) ==
  IF Dependencies(c) = {} THEN [fs EXCEPT !.loadingDeps = FALSE]
  ELSE [fs EXCEPT !.loadingDeps = TRUE, !.depsError = Null]

\* The entity effect calls fetchOne.
EntityEffectFetches(i) == isEditModeOf(i) /\ Truthy(i)

\* updateFormState of the entity effect when it starts.
EntityEffectState(i, fs) ==
  IF EntityEffectFetches(i) THEN [fs EXCEPT !.loading = TRUE, !.error = Null]
  ELSE [fs EXCEPT !.loading = FALSE]

\* DomainForm after its first render and effects.
FormInit ==
  /\ cfg \in Configs
  /\ id \in IdParams(cfg)
  /\ mounted = TRUE
  /\ formState = EntityEffectState(id, DepsEffectState(cfg, InitialFormState(cfg, id)))
  /\ form = [values |-> defaultValues(cfg), defaultValues |-> defaultValues(cfg),
             isDirty |-> FALSE]
  /\ isProcessingConnectionRef = FALSE
  /\ calculationStateRef = NoStatus(cfg)
  /\ cycles = << >>
  /\ entityFetches = IF EntityEffectFetches(id)
                     THEN {[id |-> id, isMounted |-> TRUE]} ELSE {}
  /\ depsLoad = [isMounted |-> TRUE,
                 status |-> [k \in Dependencies(cfg) |-> "pending"],
                 settled |-> Dependencies(cfg) = {}]
  /\ save = [pc |-> "idle", kind |-> "none", id |-> Undef]
  /\ calls = IF EntityEffectFetches(id)
             THEN {[fn |-> "fetchOne", id |-> id, editMode |-> isEditModeOf(id)]}
             ELSE {}
  /\ outcomes = {}
  /\ engineStarts = {}
  /\ toasts = {}
  /\ navigated = FALSE
  /\ lastStep = Step("other", "", 0, 0, "none", {})
  /\ events = 0

\* The form is on screen; no API call is followed, and neither the detail page
\* nor a list page is.
Init ==
  /\ FormInit
  /\ api = NoCall
  /\ detail = NoDetailPage
  /\ list = NoListPage

(***************************************************************************)
(* Render decisions.                                                       *)
(***************************************************************************)
\* Variant: the error screen does not look at isDirty.
View_IgnoresDirty ==
  IF formState.loading \/ formState.loadingDeps THEN "skeleton"
  ELSE IF /\ (Truthy(formState.error) \/ Truthy(formState.depsError))
          /\ ~formState.saving
          /\ isEditMode
       THEN "error"
       ELSE "form"

\* What the component returns: the skeleton, the error screen or the form.
View ==
  IF formState.loading \/ formState.loadingDeps THEN "skeleton"
  ELSE IF /\ (Truthy(formState.error) \/ Truthy(formState.depsError))
          /\ ~formState.saving
          /\ isEditMode
          /\ ~form.isDirty
       THEN "error"
       ELSE "form"

\* The "Save Error" alert is rendered inside the form.
SaveErrorBanner == View = "form" /\ Truthy(formState.error) /\ formState.saving

\* disabled of the submit button.
SubmitDisabled == formState.saving \/ Truthy(formState.depsError)

\* isDisabled of FormFieldComponent.
isDisabled(c, f) ==
  (getFieldConfig(c, f).immutable /\ isEditMode) \/ formState.loadingDeps

\* The disabled prop the widget of a field ends up with.
WidgetDisabled(c, f) ==
  LET field == getFieldConfig(c, f)
      fromProps == field.dependencyKey # ""
      propsDisabled == isDisabled(c, f) \/ Truthy(formState.depsError)
  IN CASE field.component = "Select" ->
            IF fromProps THEN propsDisabled
            ELSE isDisabled(c, f) \/ Truthy(formState.depsError)
       [] field.component \in {"Textarea", "Checkbox"} ->
            IF fromProps THEN propsDisabled ELSE isDisabled(c, f)
       [] OTHER -> isDisabled(c, f)

(***************************************************************************)
(* The watch subscriptions of the field connections.                       *)
(***************************************************************************)
\* Variant: the subscription reacts to every write of its source field.
SubscriptionStarts_AnyWrite(watched, name, type, processing) == name = watched

\* The watch callback of the connection on field watched gets past both of
\* its returns for a notification {name, type} while the guard flag is
\* processing: it starts a propagation cycle.
SubscriptionStarts(watched, name, type, processing) ==
  name = watched /\ type = "change" /\ ~processing

\* The connections whose subscription starts a cycle when the engine writes
\* the fields names (setValue and reset notify without a type; reset
\* notifies without a name, "") while the guard flag is processing.
EngineStarts(names, processing) ==
  {k \in DOMAIN FieldConnections(cfg) :
     \E name \in names :
       SubscriptionStarts(FieldConnections(cfg)[k].sourceField, name,
                          "undefined", processing)}

\* The fields whose value differs between two form stores.
Written(before, after) ==
  {g \in DOMAIN before.values : after.values[g] # before.values[g]}

(***************************************************************************)
(* Loading: dependencies and entity.                                       *)
(***************************************************************************)
\* updateFormState: React drops the update of an unmounted component.
updateFormState(fs) == IF mounted THEN fs ELSE formState

\* Variant: the responses are not checked against the cleanup.
StillMounted_Unchecked(isMounted) == TRUE

\* if (!isMounted) return; of loadDependencies and loadEntity, negated.
StillMounted(isMounted) == isMounted

\* The step of a response: "dropped" when its effect had been cleaned up.
ResponseStep(isMounted) ==
  Step(IF isMounted THEN "other" ELSE "dropped", "", 0, 0, "none", {})

\* Variant: Promise.race in place of Promise.all.
PromiseAllResolved_AnyOne(status) == \E d \in DOMAIN status : status[d] = "ok"

\* Promise.all resolves: every fetcher has resolved.
PromiseAllResolved(status) == \A d \in DOMAIN status : status[d] = "ok"

\* A dependency fetcher resolves; Promise.all resolves with the last one.
DependencyFetched(k) ==
  /\ depsLoad.status[k] = "pending"
  /\ LET status == [depsLoad.status EXCEPT ![k] = "ok"]
         allOk == PromiseAllResolved(status)
     IN /\ depsLoad' = [depsLoad EXCEPT !.status = status,
                                        !.settled = @ \/ allOk]
        /\ formState' =
             IF ~depsLoad.settled /\ allOk /\ StillMounted(depsLoad.isMounted)
             THEN updateFormState([formState EXCEPT
                    !.dependencyData = DOMAIN status, !.loadingDeps = FALSE])
             ELSE formState
  /\ lastStep' = ResponseStep(depsLoad.isMounted)
  /\ UNCHANGED << pageVars, cfg, id, mounted, form, isProcessingConnectionRef,
                  calculationStateRef, cycles, entityFetches, save, calls,
                  toasts, navigated, events,
                  outcomes, engineStarts >>

\* A dependency fetcher rejects; Promise.all rejects with the first one.
DependencyFailed(k) ==
  /\ depsLoad.status[k] = "pending"
  /\ depsLoad' = [depsLoad EXCEPT !.status[k] = "failed", !.settled = TRUE]
  /\ LET caught == ~depsLoad.settled /\ StillMounted(depsLoad.isMounted)
     IN /\ formState' =
             IF caught
             THEN updateFormState([formState EXCEPT
                    !.depsError = DepsErrorMessage, !.loadingDeps = FALSE])
             ELSE formState
        /\ toasts' = IF caught THEN toasts \cup {"Error Loading Dependencies"}
                     ELSE toasts
  /\ lastStep' = ResponseStep(depsLoad.isMounted)
  /\ UNCHANGED << pageVars, cfg, id, mounted, form, isProcessingConnectionRef,
                  calculationStateRef, cycles, entityFetches, save, calls,
                  navigated, events,
                  outcomes, engineStarts >>

\* Every field counts as written for the cycles awaiting a calculator.
TouchAll(cs, fields) ==
  [j \in DOMAIN cs |-> [cs[j] EXCEPT !.touched = @ \cup fields]]

\* fetchOne resolves: the form is reset to the record unless the effect was
\* cleaned up.
EntityFetched(fetch) ==
  /\ fetch \in entityFetches
  /\ entityFetches' = entityFetches \ {fetch}
  /\ IF StillMounted(fetch.isMounted)
     THEN /\ form' = reset(form, FormDataOfEntity(cfg))
          /\ formState' = updateFormState([formState EXCEPT !.loading = FALSE])
          /\ cycles' = TouchAll(cycles, FieldNames(cfg))
          /\ engineStarts' =
               engineStarts \cup EngineStarts({""}, isProcessingConnectionRef)
     ELSE UNCHANGED << form, formState, cycles, engineStarts >>
  /\ lastStep' = ResponseStep(fetch.isMounted)
  /\ UNCHANGED << pageVars, cfg, id, mounted, isProcessingConnectionRef,
                  calculationStateRef, depsLoad, save, calls, toasts, navigated, events,
                  outcomes >>

\* fetchOne rejects.
EntityFetchFailed(fetch) ==
  /\ fetch \in entityFetches
  /\ entityFetches' = entityFetches \ {fetch}
  /\ IF StillMounted(fetch.isMounted)
     THEN /\ formState' = updateFormState([formState EXCEPT
                            !.error = LoadErrorMessage, !.loading = FALSE])
          /\ toasts' = toasts \cup {"Error loading"}
     ELSE UNCHANGED << formState, toasts >>
  /\ lastStep' = ResponseStep(fetch.isMounted)
  /\ UNCHANGED << pageVars, cfg, id, mounted, form, isProcessingConnectionRef,
                  calculationStateRef, cycles, depsLoad, save, calls, navigated, events,
                  outcomes, engineStarts >>

\* The cleanup of the entity effect: isMounted = false in every closure.
CleanedUp(fetches) == {[f EXCEPT !.isMounted = FALSE] : f \in fetches}

\* The route changes the identifier parameter of the mounted form: the
\* entity effect is cleaned up and runs again.
ChangeId(newId) ==
  /\ mounted
  /\ events < MaxEvents
  /\ newId # id
  /\ events' = events + 1
  /\ id' = newId
  /\ formState' = EntityEffectState(newId, formState)
  /\ entityFetches' =
       CleanedUp(entityFetches) \cup
         IF EntityEffectFetches(newId)
         THEN {[id |-> newId, isMounted |-> TRUE]} ELSE {}
  /\ calls' = IF EntityEffectFetches(newId)
              THEN calls \cup {[fn |-> "fetchOne", id |-> newId,
                                editMode |-> isEditModeOf(newId)]}
              ELSE calls
  /\ lastStep' = Step("other", "", 0, 0, "none", {})
  /\ UNCHANGED << pageVars, cfg, mounted, form, isProcessingConnectionRef,
                  calculationStateRef, cycles, depsLoad, save, toasts, navigated,
                  outcomes, engineStarts >>

\* The cleanups of the three effects.
Unaliased(cs) == [j \in DOMAIN cs |-> [cs[j] EXCEPT !.aliased = FALSE]]

\* The user leaves the page: the component unmounts.
Unmount ==
  /\ mounted
  /\ mounted' = FALSE
  /\ entityFetches' = CleanedUp(entityFetches)
  /\ depsLoad' = [depsLoad EXCEPT !.isMounted = FALSE]
  /\ calculationStateRef' = NoStatus(cfg)
  /\ cycles' = Unaliased(cycles)
  /\ lastStep' = Step("other", "", 0, 0, "none", {})
  /\ UNCHANGED << pageVars, cfg, id, formState, form, isProcessingConnectionRef, save,
                  calls, toasts, navigated, events,
                  outcomes, engineStarts >>

(***************************************************************************)
(* Field-connection propagation.                                           *)
(***************************************************************************)
\* The index of the connection whose sourceField is f, 0 when f is no source.
ConnectionOf(c, f) ==
  LET ks == {k \in DOMAIN FieldConnections(c) :
               FieldConnections(c)[k].sourceField = f}
  IN IF ks = {} THEN 0 ELSE CHOOSE k \in ks : \A j \in ks : k <= j

\* Variant: the subscription has no re-entrancy guard.
GuardBlocks_Never == FALSE

\* if (isProcessingConnectionRef.current) return;
GuardBlocks == isProcessingConnectionRef

\* Variant: no finally block resets the flag.
GuardAfter_NeverReset(pc) == TRUE

\* isProcessingConnectionRef.current once processConnection stands at pc:
\* set at its start, reset by its finally block when it is done.
GuardAfter(pc) == pc = "await"

\* Variant: targets are cleared only when the option is spelled out.
ClearsOnNoMatch_OnlyExplicit(conn) == conn.clearTargetsOnNoMatch = "true"

\* connection.clearTargetsOnNoMatch !== false
ClearsOnNoMatch(conn) == conn.clearTargetsOnNoMatch # "false"

\* processConnection up to its first await or its end, after the user
\* changed the source field of connection k: the loop state of
\* runCalculations plus the matched row.
ProcessConnection(c, k, fm) ==
  LET conn == FieldConnections(c)[k]
      r == FindMatch(conn, fm.values[conn.sourceField])
      st0 == [form |-> fm, ref |-> calculationStateRef,
              new |-> calculationStateRef, aliased |-> FALSE,
              toasts |-> toasts, pc |-> "done", idx |-> 0, row |-> r,
              input |-> Undef]
  IN IF r # 0
     THEN LET fanned == [st0 EXCEPT !.form =
                           UpdateTargets(c, conn, conn.lookupSet[r], fm, 1)]
          IN IF Len(conn.calculations) > 0
             THEN RunCalculationsFrom(c, conn, conn.lookupSet[r], 1, fanned)
             ELSE fanned
     ELSE IF ClearsOnNoMatch(conn)
          THEN ClearTargets(c, conn, st0, 1)
          ELSE st0

\* The user leaves text in the widget of field f (a change event).
UserChange(f, text) ==
  /\ mounted
  /\ View = "form"
  /\ ~WidgetDisabled(cfg, f)
  /\ events < MaxEvents
  /\ events' = events + 1
  /\ LET x == OnChange(cfg, f, text)
         vals == [form.values EXCEPT ![f] = x]
         fm == [form EXCEPT !.values = vals, !.isDirty = vals # form.defaultValues]
         k == ConnectionOf(cfg, f)
         waiting == TouchAll(cycles, {f})
     IN IF k = 0 \/ GuardBlocks
        THEN /\ form' = fm
             /\ cycles' = waiting
             /\ lastStep' = ChangeStep(f, k, 0,
                                       IF k = 0 THEN "none" ELSE "ignored", text)
             /\ UNCHANGED << formState, isProcessingConnectionRef,
                             calculationStateRef, toasts, engineStarts >>
        ELSE LET st == ProcessConnection(cfg, k, fm)
             IN /\ form' = st.form
                /\ engineStarts' =
                     engineStarts \cup EngineStarts(Written(fm, st.form), TRUE)
                /\ calculationStateRef' = st.ref
                /\ toasts' = st.toasts
                /\ isProcessingConnectionRef' = GuardAfter(st.pc)
                /\ cycles' =
                     IF st.pc = "await"
                     THEN Append(Unaliased(waiting),
                                 [conn |-> k, row |-> st.row, idx |-> st.idx,
                                  new |-> st.new, aliased |-> TRUE,
                                  touched |-> {}, input |-> st.input])
                     ELSE waiting
                /\ formState' =
                     IF st.pc = "done"
                     THEN updateFormState([formState EXCEPT
                            !.calculationState = st.ref])
                     ELSE formState
                /\ lastStep' = ChangeStep(f, k, st.row, st.pc, text)
  /\ UNCHANGED << pageVars, cfg, id, mounted, entityFetches, depsLoad, save, calls,
                  navigated,
                  outcomes >>

\* The loop state of the cycle cycles[j] when its calculator has settled.
ResumedState(j) ==
  [form |-> form, ref |-> calculationStateRef, new |-> cycles[j].new,
   aliased |-> cycles[j].aliased, toasts |-> toasts, pc |-> "await",
   idx |-> cycles[j].idx, row |-> cycles[j].row, input |-> cycles[j].input]

\* cycles without its j-th element.
Without(cs, j) == SubSeq(cs, 1, j - 1) \o SubSeq(cs, j + 1, Len(cs))

\* The rest of the cycle cycles[j] once the settled calculation has been
\* written (st1): the following calculations, then the end of
\* processConnection.
Resume(j, st1) ==
  LET cy == cycles[j]
      conn == FieldConnections(cfg)[cy.conn]
      st == RunCalculationsFrom(cfg, conn, conn.lookupSet[cy.row], cy.idx + 1, st1)
  IN /\ form' = st.form
     /\ engineStarts' =
          IF mounted
          THEN engineStarts \cup
                 EngineStarts(Written(form, st.form)
                                \cup {conn.calculations[cy.idx].targetField},
                              isProcessingConnectionRef)
          ELSE engineStarts
     /\ calculationStateRef' = st.ref
     /\ toasts' = st.toasts
     /\ IF st.pc = "await"
        THEN /\ cycles' = [Unaliased(cycles) EXCEPT
                             ![j] = [cy EXCEPT !.idx = st.idx, !.new = st.new,
                                               !.aliased = TRUE,
                                               !.input = st.input]]
             /\ UNCHANGED << formState, isProcessingConnectionRef >>
        ELSE /\ cycles' = Without(cycles, j)
             /\ formState' = updateFormState([formState EXCEPT
                               !.calculationState = st.ref])
             /\ isProcessingConnectionRef' = GuardAfter(st.pc)
     /\ lastStep' = Step(IF st1.new[conn.calculations[cy.idx].targetField] = "error"
                         THEN "calculationError" ELSE "calculationSuccess",
                         conn.calculations[cy.idx].targetField,
                         cy.conn, cy.row, st.pc, cy.touched)
     /\ UNCHANGED << pageVars, cfg, id, mounted, entityFetches, depsLoad, save, calls,
                     navigated, events,
                  outcomes >>

\* The calculator a cycle awaits resolves with result.
CalculatorResolves(j, result) ==
  /\ j \in DOMAIN cycles
  /\ Resume(j, CalculatorReturned(
                 cfg, FieldConnections(cfg)[cycles[j].conn], cycles[j].idx,
                 [ResumedState(j) EXCEPT
                    !.toasts = @ \cup CalculatorToasts(cfg, result)],
                 result))

\* The calculator a cycle awaits rejects.
CalculatorRejects(j) ==
  /\ j \in DOMAIN cycles
  /\ CalculatorMayThrow(cfg)
  /\ Resume(j, CalculatorThrew(cfg, FieldConnections(cfg)[cycles[j].conn],
                               cycles[j].idx, ResumedState(j)))

(***************************************************************************)
(* Submission.                                                             *)
(***************************************************************************)
\* Variant: onSubmit always creates.
SaveKind_AlwaysCreate(i) == "create"

\* The backend call onSubmit makes: update in edit mode, create otherwise.
SaveKind(i) == IF isEditModeOf(i) /\ Truthy(i) THEN "update" ELSE "create"

\* The user submits a form that passes validation: onSubmit up to its await,
\* or to its end when transformFormToApi throws.
Submit ==
  /\ mounted
  /\ events < MaxEvents
  /\ events' = events + 1
  /\ View = "form"
  /\ ~SubmitDisabled
  /\ SchemaValid(cfg, form.values)
  /\ IF TransformFormToApiThrows(cfg, form.values)
     THEN /\ formState' = updateFormState([formState EXCEPT
                            !.saving = FALSE, !.error = SaveErrorMessage])
          /\ toasts' = toasts \cup {"Error saving"}
          /\ UNCHANGED << save, calls >>
     ELSE /\ formState' = updateFormState([formState EXCEPT
                            !.saving = TRUE, !.error = Null])
          /\ save' = [pc |-> "awaiting", kind |-> SaveKind(id), id |-> id]
          /\ calls' = calls \cup {[fn |-> SaveKind(id), id |-> id,
                                   editMode |-> isEditMode]}
          /\ UNCHANGED toasts
  /\ lastStep' = Step(IF TransformFormToApiThrows(cfg, form.values)
                      THEN "other" ELSE "submit", "", 0, 0, "none", {})
  /\ UNCHANGED << pageVars, cfg, id, mounted, form, isProcessingConnectionRef,
                  calculationStateRef, cycles, entityFetches, depsLoad,
                  navigated,
                  outcomes, engineStarts >>

\* Variant: no finally block.
SavingCleared_Never(fs) == fs

\* updateFormState of the finally block.
SavingCleared(fs) == [fs EXCEPT !.saving = FALSE]

\* The create/update call resolves: success toast, navigate to the list
\* route (which unmounts the form), finally.
SaveSucceeded ==
  /\ save.pc = "awaiting"
  /\ save' = [pc |-> "idle", kind |-> "none", id |-> Undef]
  /\ outcomes' = outcomes \cup {<<save.kind, "resolved">>}
  /\ toasts' = toasts \cup {IF save.kind = "update" THEN "Updated" ELSE "Created"}
  /\ navigated' = TRUE
  /\ formState' = updateFormState(SavingCleared(formState))
  /\ mounted' = FALSE
  /\ entityFetches' = CleanedUp(entityFetches)
  /\ depsLoad' = [depsLoad EXCEPT !.isMounted = FALSE]
  /\ calculationStateRef' = NoStatus(cfg)
  /\ cycles' = Unaliased(cycles)
  /\ lastStep' = Step("other", "", 0, 0, "none", {})
  /\ UNCHANGED << pageVars, cfg, id, form, isProcessingConnectionRef, calls, events, engineStarts >>

\* The create/update call rejects: catch, finally.
SaveFailed ==
  /\ save.pc = "awaiting"
  /\ save' = [pc |-> "idle", kind |-> "none", id |-> Undef]
  /\ outcomes' = outcomes \cup {<<save.kind, "rejected">>}
  /\ formState' = updateFormState(SavingCleared(
                    [formState EXCEPT !.error = SaveErrorMessage]))
  /\ toasts' = toasts \cup {"Error saving"}
  /\ lastStep' = Step("other", "", 0, 0, "none", {})
  /\ UNCHANGED << pageVars, cfg, id, mounted, form, isProcessingConnectionRef,
                  calculationStateRef, cycles, entityFetches, depsLoad, calls,
                  navigated, events, engineStarts >>

Next ==
  \/ \E k \in Dependencies(cfg) : DependencyFetched(k)
  \/ \E k \in Dependencies(cfg) : DependencyFailed(k)
  \/ \E fetch \in entityFetches : EntityFetched(fetch)
  \/ \E fetch \in entityFetches : EntityFetchFailed(fetch)
  \/ \E newId \in RouteParams(cfg) : ChangeId(newId)
  \/ Unmount
  \/ \E f \in FieldNames(cfg) : \E text \in UserInputs(cfg, f) : UserChange(f, text)
  \/ \E j \in DOMAIN cycles : \E result \in CalculatorResultsOf(cfg) :
       CalculatorResolves(j, result)
  \/ \E j \in DOMAIN cycles : CalculatorRejects(j)
  \/ Submit
  \/ SaveSucceeded
  \/ SaveFailed

Spec == Init /\ [][Next]_vars

\* The calculator some cycle awaits settles.
CalculatorSettles ==
  \E j \in DOMAIN cycles :
    \/ \E result \in CalculatorResultsOf(cfg) : CalculatorResolves(j, result)
    \/ CalculatorRejects(j)

\* The form of a configuration with calculations, mounted by a route of App.
SettlingInit ==
  /\ Init
  /\ id \in RouteParams(cfg)
  /\ \E k \in DOMAIN FieldConnections(cfg) :
       FieldConnections(cfg)[k].calculations # << >>

\* That form, with calculators that always settle in the end.
SettlingSpec == SettlingInit /\ [][Next]_vars /\ WF_vars(CalculatorSettles)

(***************************************************************************)
(* Properties of field-connection propagation.                             *)
(***************************************************************************)
\* The last step started a propagation cycle.
CycleStarted(step) == step.kind = "change" /\ step.ran \in {"await", "done"}

\* C1: propagation cycles never interleave: at most one cycle is in flight,
\* and a cycle starts only while no other cycle is in flight, whatever the
\* order of user changes and calculator completions.
C1_CyclesNeverInterleave ==
  /\ [](Len(cycles) <= 1)
  /\ [][CycleStarted(lastStep') => cycles = << >>]_vars

\* C1: a source field was changed while a cycle awaited its calculator, and
\* the change started no cycle.
C1_Witness ==
  /\ lastStep.kind = "change"
  /\ lastStep.ran = "ignored"
  /\ Len(cycles) = 1

\* The last step completed a propagation cycle that had matched a row.
CycleCompletedOnMatch ==
  lastStep.conn # 0 /\ lastStep.row # 0 /\ lastStep.ran = "done"

\* The values the match branch may leave in target f for the matched row:
\* the row's value, else the configured default, else 0 / false / "", with
\* the input transform of f applied.
C2_Expected(c, row, f) ==
  LET d == getFieldConfig(c, f).defaultValue
      raw == IF f \in DOMAIN row THEN {row[f]}
             ELSE IF d # Undef THEN {d}
             ELSE {Num("0"), [t |-> "boolean", v |-> "false"], Str("")}
  IN {TransformInput(c, f, x) : x \in raw}

\* Target f of the completed cycle holds what the match branch gives it.
C2_TargetHolds(f) ==
  LET conn == FieldConnections(cfg)[lastStep.conn]
  IN form.values[f] \in C2_Expected(cfg, conn.lookupSet[lastStep.row], f)

\* C2 (as stated): after a cycle on a matching source value has completed,
\* every target field other than the source holds the row's value, or the
\* default, or 0 / false / "", with the input transform applied.
C2_EveryTargetHoldsRowValue ==
  CycleCompletedOnMatch =>
    LET conn == FieldConnections(cfg)[lastStep.conn]
    IN \A f \in Range(conn.targetFields) \ {conn.sourceField} : C2_TargetHolds(f)

\* C2 (amended): the same, for the targets that are not calculation targets
\* of the connection and that nobody else wrote while the cycle awaited a
\* calculator.
C2_PlainTargetsHoldRowValue ==
  CycleCompletedOnMatch =>
    LET conn == FieldConnections(cfg)[lastStep.conn]
    IN \A f \in (Range(conn.targetFields) \ {conn.sourceField})
                  \ (Range(CalculationTargets(conn)) \cup lastStep.touched) :
         C2_TargetHolds(f)

\* C2: a cycle with a calculation completed on a match and left a value of
\* the row in a target that is no calculation target.
C2_Witness ==
  /\ CycleCompletedOnMatch
  /\ lastStep.kind = "calculationSuccess"
  /\ LET conn == FieldConnections(cfg)[lastStep.conn]
         row == conn.lookupSet[lastStep.row]
     IN \E f \in (Range(conn.targetFields) \ {conn.sourceField})
                   \ (Range(CalculationTargets(conn)) \cup lastStep.touched) :
          f \in DOMAIN row /\ form.values[f] = row[f]

\* C3: after a change of the source field of a connection whose
\* clearTargetsOnNoMatch is true or omitted to a value no row has, every
\* target and calculation target other than the source holds its default
\* with the input transform applied, and every calculation target is idle.
C3_NoMatchResetsTargets ==
  (lastStep.kind = "change" /\ lastStep.conn # 0 /\ lastStep.row = 0
     /\ lastStep.ran = "done"
     /\ FieldConnections(cfg)[lastStep.conn].clearTargetsOnNoMatch
          \in {"true", "omitted"}) =>
    LET conn == FieldConnections(cfg)[lastStep.conn]
    IN /\ \A f \in Range(AllTargets(conn)) \ {conn.sourceField} :
            form.values[f] =
              TransformInput(cfg, f, getFieldConfig(cfg, f).defaultValue)
       /\ \A f \in Range(CalculationTargets(conn)) \ {conn.sourceField} :
            /\ calculationStateRef[f] = "idle"
            /\ formState.calculationState[f] = "idle"

\* C3: after an earlier change, a connection that omits clearTargetsOnNoMatch
\* found no row for its source value and reset its calculation target.
C3_Witness ==
  /\ lastStep.kind = "change" /\ lastStep.conn # 0 /\ lastStep.row = 0
  /\ lastStep.ran = "done"
  /\ FieldConnections(cfg)[lastStep.conn].clearTargetsOnNoMatch = "omitted"
  /\ calculationStateRef["amount"] = "idle"
  /\ events > 1

\* C4: while the form is mounted, the status of a calculation target becomes
\* success or error only from pending, and when it becomes error the target
\* field holds its configured default.
C4_StatusTransitions ==
  [][mounted' =>
       \A f \in FieldNames(cfg) :
         (calculationStateRef'[f] # calculationStateRef[f]
            /\ calculationStateRef'[f] \in {"success", "error"}) =>
           /\ calculationStateRef[f] = "pending"
           /\ calculationStateRef'[f] = "error" =>
                form'.values[f] = getFieldConfig(cfg, f).defaultValue]_vars

\* C4: a calculation ended in error on a target the user had overwritten
\* while the calculator ran.
C4_Witness ==
  /\ mounted
  /\ lastStep.kind = "calculationError"
  /\ lastStep.field \in lastStep.touched
  /\ calculationStateRef[lastStep.field] = "error"

(***************************************************************************)
(* Properties of loading and of the render decisions.                      *)
(***************************************************************************)
\* The entity fetch of the mounted edit form has failed.
EntityLoadFailed ==
  mounted /\ isEditMode /\ formState.error = LoadErrorMessage

\* C5 (as stated): in edit mode, when the entity fetch has failed, the error
\* screen replaces the form as long as the form is not dirty, and the form
\* is kept when it is dirty.
C5_LoadFailureBlocksUnlessDirty ==
  EntityLoadFailed => View = (IF form.isDirty THEN "form" ELSE "error")

\* C5 (amended): the same, once dependency loading has finished and while no
\* submission is in flight.
C5_LoadFailureBlocksOnceSettled ==
  (EntityLoadFailed /\ ~formState.loadingDeps /\ ~formState.saving) =>
    View = (IF form.isDirty THEN "form" ELSE "error")

\* C5: the entity fetch failed on a form the user had dirtied, and the form
\* is still shown.
C5_Witness ==
  /\ EntityLoadFailed /\ ~formState.loadingDeps /\ ~formState.saving
  /\ form.isDirty
  /\ View = "form"

\* C6 (as stated): once a dependency fetch has failed, submission is
\* disabled and the error screen does not replace the form, in create mode
\* and in edit mode alike.
C6_DependencyFailureKeepsForm ==
  (mounted /\ Truthy(formState.depsError)) =>
    SubmitDisabled /\ View # "error"

(***************************************************************************)
(* Properties of submission.                                               *)
(***************************************************************************)
\* C7: on the mounted form, saving is true exactly while a create/update
\* call is in flight: it is cleared when the call settles and is not left
\* set when the form-to-API transform throws.
C7_SavingOnlyWhileInFlight ==
  mounted => (formState.saving <=> save.pc = "awaiting")

\* C7: a submission has failed and saving is cleared.
C7_Witness ==
  /\ mounted
  /\ formState.error = SaveErrorMessage
  /\ "Error saving" \in toasts
  /\ ~formState.saving

\* C8 (as stated): from the failure of a create/update call until the next
\* submission starts, the save error banner is displayed on the form.
C8_SaveErrorBannerShown ==
  (mounted /\ formState.error = SaveErrorMessage
     /\ \E o \in outcomes : o[2] = "rejected") =>
    SaveErrorBanner

C10_EditModeIffIdentifier ==
  /\ isEditMode <=> id \notin {Undef, Str(""), Str("new")}
  /\ \A call \in calls :
       call.fn = "fetchOne" => call.id \notin {Undef, Str(""), Str("new")}
  /\ (mounted /\ id \in {Undef, Str(""), Str("new")}) => ~formState.loading
  /\ (id \in {Undef, Str(""), Str("new")} /\ events = 0) =>
       /\ entityFetches = {}
       /\ form.values = [f \in FieldNames(cfg) |-> getFieldConfig(cfg, f).defaultValue]

\* C10: the form was opened on the "new" identifier, has loaded its
\* dependencies without fetching a record, and shows its defaults.
C10_Witness ==
  /\ id = Str("new")
  /\ events = 0
  /\ formState.dependencyData # {}
  /\ View = "form"
  /\ calls = {}

(***************************************************************************)
(* Properties of the field widgets.                                        *)
(***************************************************************************)
\* C11 (as stated): on the rendered form every field whose configuration
\* disables it in the current mode, or whose form is still loading its
\* dependencies, has a disabled widget, and so has every field with a
\* dependencyKey once the dependency load has failed.
C11_DeclaredDisabledIsDisabled ==
  (mounted /\ View = "form") =>
    \A f \in FieldNames(cfg) :
      /\ ((getFieldConfig(cfg, f).immutable /\ isEditMode)
            \/ formState.loadingDeps) => WidgetDisabled(cfg, f)
      /\ (getFieldConfig(cfg, f).dependencyKey # ""
            /\ Truthy(formState.depsError)) => WidgetDisabled(cfg, f)

\* The last step was a change event of the user on a number input.
NumberInputChanged ==
  /\ lastStep.kind = "change"
  /\ getFieldConfig(cfg, lastStep.field).component = "Input"
  /\ InputType(cfg, lastStep.field) = "number"

\* C16: a change event on a number input leaves the parsed number in the
\* form value when the text is a number, and NaN (never 0) when the text is
\* empty or no number.
C16_UnparsedTextCommitsNaN ==
  NumberInputChanged =>
    form.values[lastStep.field] =
      (IF lastStep.text \in NumericTexts THEN Num(lastStep.text) ELSE NaN)

\* C16: the user emptied a number input and the form value is NaN.
C16_Witness ==
  /\ NumberInputChanged
  /\ lastStep.text = ""
  /\ form.values[lastStep.field] = NaN

(***************************************************************************)
(* Properties of the re-entrancy guard and of the subscriptions.           *)
(***************************************************************************)
\* The last step completed the propagation cycle that awaited a calculator.
AwaitedCycleCompleted(step) ==
  step.kind \in {"calculationSuccess", "calculationError"} /\ step.ran = "done"

\* C17: a change of a source field that arrives while a cycle is in flight
\* only puts the changed value in that field: it starts no cycle, writes no
\* other field and no status; and when the cycle in flight completes, no
\* cycle is left or started, so the change is never propagated.
C17_MidCycleChangeNeverPropagated ==
  /\ [][(lastStep'.kind = "change" /\ ConnectionOf(cfg, lastStep'.field) # 0
           /\ cycles # << >>) =>
          /\ Len(cycles') = Len(cycles)
          /\ form'.values =
               [form.values EXCEPT ![lastStep'.field] =
                  OnChange(cfg, lastStep'.field, lastStep'.text)]
          /\ calculationStateRef' = calculationStateRef]_vars
  /\ [][AwaitedCycleCompleted(lastStep') =>
          cycles' = << >> /\ ~isProcessingConnectionRef']_vars

\* C17: a cycle completed after its source field had been changed again
\* while it ran; the source holds the later value, which the matched row of
\* the cycle does not have.
C17_Witness ==
  /\ AwaitedCycleCompleted(lastStep)
  /\ cycles = << >>
  /\ LET conn == FieldConnections(cfg)[lastStep.conn]
     IN /\ conn.sourceField \in lastStep.touched
        /\ ~RowMatches(conn, conn.lookupSet[lastStep.row],
                       form.values[conn.sourceField])

\* C18: no write of the engine (target writes and resets, calculation
\* writes, the reset after the entity load) gets a subscription to start a
\* cycle, and the guard flag is raised only by a change event of the user on
\* the source field of a connection.
C18_OnlyUserChangeStartsCycle ==
  /\ [](engineStarts = {})
  /\ [][(isProcessingConnectionRef' /\ ~isProcessingConnectionRef) =>
          /\ lastStep'.kind = "change"
          /\ lastStep'.conn # 0
          /\ FieldConnections(cfg)[lastStep'.conn].sourceField = lastStep'.field]_vars

\* C18: a cycle wrote a value of the matched row into a field that is the
\* source of another connection, and no cycle was started for it.
C18_Witness ==
  /\ CycleStarted(lastStep)
  /\ lastStep.row # 0
  /\ engineStarts = {}
  /\ LET conn == FieldConnections(cfg)[lastStep.conn]
         row == conn.lookupSet[lastStep.row]
     IN \E k \in DOMAIN FieldConnections(cfg) :
          LET g == FieldConnections(cfg)[k].sourceField
          IN /\ k # lastStep.conn
             /\ g \in Range(conn.targetFields)
             /\ g \in DOMAIN row
             /\ form.values[g] = row[g]
             /\ row[g] # getFieldConfig(cfg, g).defaultValue

(***************************************************************************)
(* Properties of the calculations.                                         *)
(***************************************************************************)
\* The target field of the calculation the cycle cy awaits.
AwaitedTarget(cy) ==
  FieldConnections(cfg)[cy.conn].calculations[cy.idx].targetField

\* C19 (as stated): on the mounted form, for as long as a cycle awaits the
\* calculator of a target field, the status of that field is pending, in
\* the engine's record and in formState.calculationState, which the field
\* indicator reads.
C19_PendingExposedWhileAwaiting ==
  mounted =>
    \A j \in DOMAIN cycles :
      /\ calculationStateRef[AwaitedTarget(cycles[j])] = "pending"
      /\ formState.calculationState[AwaitedTarget(cycles[j])] = "pending"

\* C20 (as stated): when a calculation ends in error on the mounted form,
\* the step that ends it leaves the default in the target field, marks its
\* status error, has raised the engine's notification carrying the
\* configured errorMessage, changes no other field and does not change
\* whether submission is disabled.
C20_FailureNotifiesAndDegrades ==
  [][(mounted' /\ lastStep'.kind = "calculationError") =>
       /\ form'.values[lastStep'.field] =
            getFieldConfig(cfg, lastStep'.field).defaultValue
       /\ calculationStateRef'[lastStep'.field] = "error"
       /\ "Calculation Error" \in toasts'
       /\ \A g \in FieldNames(cfg) \ {lastStep'.field} :
            form'.values[g] = form.values[g]
       /\ SubmitDisabled' = SubmitDisabled]_vars

(***************************************************************************)
(* One call of an API client function.                                     *)
(***************************************************************************)
\* The form parked in the create form of currencies.
FormParked == FormInit /\ cfg = "currency" /\ id = Undef

ApiInit ==
  /\ FormParked
  /\ api = NoCall
  /\ detail = NoDetailPage
  /\ list = NoListPage

\* A client function is called: it awaits fetch.
ApiCall(fn) ==
  /\ api.pc = "idle"
  /\ api' = [api EXCEPT !.pc = "fetching", !.fn = fn]
  /\ UNCHANGED << formVars, detail, list >>

\* fetch resolves with a response: handleResponse and the return statement.
ApiResponds(status, body) ==
  /\ api.pc = "fetching"
  /\ LET response == [status |-> status, body |-> body]
     IN  api' = [api EXCEPT !.pc = "settled", !.response = response,
                            !.outcome = ClientFunction(api.fn, response)]
  /\ UNCHANGED << formVars, detail, list >>

\* fetch rejects (no response at all): the catch block rethrows.
ApiFetchRejects ==
  /\ api.pc = "fetching"
  /\ api' = [api EXCEPT !.pc = "failed",
                        !.outcome = Thrown("TypeError", << "Failed to fetch" >>)]
  /\ UNCHANGED << formVars, detail, list >>

ApiNext ==
  \/ \E fn \in ApiFunctions : ApiCall(fn)
  \/ \E status \in Statuses : \E body \in Bodies : ApiResponds(status, body)
  \/ ApiFetchRejects

ApiSpec == ApiInit /\ [][ApiNext]_vars

(***************************************************************************)
(* Properties of the API client.                                           *)
(***************************************************************************)
\* The body as the client reads it: {} when the response is not JSON.
ReadBody == IF api.response.body.json = "none" THEN EmptyObject
            ELSE api.response.body

\* The message the contract names for a failed response: the message of the
\* body if it has a non-empty one, else its issues separated by ", " if that
\* text is not empty, else the status fallback.
ContractMessage ==
  LET b == ReadBody
      n == Len(b.issues.v)
  IN  IF b.message.has /\ b.message.v # << >> THEN b.message.v
      ELSE IF b.issues.has /\ n = 1 THEN b.issues.v[1]
      ELSE IF b.issues.has /\ n = 2
      THEN b.issues.v[1] \o << ", " >> \o b.issues.v[2]
      ELSE << "HTTP error! status: ", ToString(api.response.status) >>

\* The call threw an Error with the contract's message and returned nothing.
ThrewContractError ==
  /\ api.outcome.threw
  /\ api.outcome.class = "Error"
  /\ api.outcome.message = ContractMessage
  /\ api.outcome.value = "nothing"

\* The call returned the data field of the envelope (undefined when the
\* envelope has none).
ReturnedDataField ==
  /\ ~api.outcome.threw
  /\ api.outcome.value = IF ReadBody.data = "absent" THEN "undefined" ELSE "data"
  /\ api.outcome.of = ReadBody

DetailInit ==
  /\ FormParked
  /\ api = NoCall
  /\ \E c \in DetailConfigs : \E i \in DetailIds :
       detail = DetailEffect(DetailRendered(c, i), 1)
  /\ list = NoListPage

\* The route changes and the same page renders with another parameter: the
\* effect runs again.
DetailRouteChange(newId) ==
  /\ detail.mounted
  /\ newId # detail.id
  /\ detail.runs < MaxRuns
  /\ detail' = DetailEffect([detail EXCEPT !.id = newId, !.runs = @ + 1],
                            detail.runs + 1)
  /\ UNCHANGED << formVars, api, list >>

\* fetchOne resolves: setData, and setLoading(false) in finally.
DetailFetched(fetch) ==
  /\ fetch \in detail.fetches
  /\ detail' = [detail EXCEPT !.fetches = @ \ {fetch}, !.data = fetch.id,
                              !.loading = FALSE, !.called = FALSE]
  /\ UNCHANGED << formVars, api, list >>

\* fetchOne rejects: the catch block, and setLoading(false) in finally.
DetailFetchFailed(fetch, rejection) ==
  /\ fetch \in detail.fetches
  /\ LET e == CaughtError(detail.config, rejection)
     IN  detail' = [detail EXCEPT !.fetches = @ \ {fetch},
                      !.error = IF e = "keep" THEN @ ELSE e,
                      !.toasts = IF e = "keep" THEN @ ELSE 1,
                      !.loading = FALSE, !.called = FALSE]
  /\ UNCHANGED << formVars, api, list >>

DetailNext ==
  \/ \E newId \in DetailIds : DetailRouteChange(newId)
  \/ \E fetch \in detail.fetches : DetailFetched(fetch)
  \/ \E fetch \in detail.fetches : \E rejection \in Rejections :
       DetailFetchFailed(fetch, rejection)

DetailSpec == DetailInit /\ [][DetailNext]_vars

\* C15: in DomainDetailPage, whenever the identifier route parameter is
\* missing, an error is set and loading is cleared, from the effect on, and
\* the effect that found it missing called no fetchOne; fetchOne is never
\* called with a missing identifier.
C15_MissingIdErrorsWithoutFetch ==
  /\ (detail.mounted /\ detail.id = Undef) =>
       /\ detail.error # "none"
       /\ ~detail.loading
       /\ ~detail.called
  /\ Undef \notin detail.calls
  /\ (detail.mounted /\ detail.runs = 1 /\ detail.id = Undef) =>
       detail.calls = {} /\ detail.error = "missingKey"

\* The parameter went missing while a fetch was in flight, and the fetch
\* has settled since.
C15_Witness ==
  /\ detail.mounted
  /\ detail.id = Undef
  /\ detail.runs = 2
  /\ detail.calls # {}
  /\ detail.fetches = {}
  /\ detail.error = "missingKey"
  /\ detail.data # Undef

(***************************************************************************)
(* The list pages: loading, paging and deleting.                           *)
(***************************************************************************)
ListInit ==
  /\ FormParked
  /\ api = NoCall
  /\ detail = NoDetailPage
  /\ \E page \in ListPages : list = LoadEffect(ListRendered(page))

\* A fetch of a page resolves with the rows and the count of the server.
PageFetched(fetch, count) ==
  /\ fetch \in list.fetches
  /\ LET rows == ServerRows(fetch.page, count, list.deleted)
         l == [list EXCEPT !.fetches = @ \ {fetch}, !.rows = rows,
                           !.loading = FALSE, !.loaded = TRUE,
                           !.counts = @ \cup {count},
                           !.last = ListStep("fetched", fetch.page, count, 0)]
     IN  list' = IF Paginated(list.page)
                 THEN [l EXCEPT !.totalPages = Ceil(count, PAGE_SIZE),
                                !.hasMorePages =
                                  fetch.page < Ceil(count, PAGE_SIZE)]
                 ELSE l
  /\ UNCHANGED << formVars, api, detail >>

\* A fetch of a page rejects.
PageFetchFailed(fetch) ==
  /\ fetch \in list.fetches
  /\ LET l == [list EXCEPT !.fetches = @ \ {fetch}, !.rows = {},
                           !.error = TRUE, !.loading = FALSE, !.loaded = TRUE,
                           !.last = ListStep("fetchFailed", fetch.page, 0, 0)]
     IN  list' = IF Paginated(list.page)
                 THEN [l EXCEPT !.hasMorePages = FALSE]
                 ELSE l
  /\ UNCHANGED << formVars, api, detail >>

\* A click on Next or Previous: handlePageChange, then the load effect of
\* the render with the new page.
PageChange(newPage) ==
  /\ list.mounted /\ Paginated(list.page)
  /\ list.clicks < MaxClicks
  /\ \/ newPage = list.currentPage + 1 /\ canGoNext(list)
     \/ newPage = list.currentPage - 1 /\ canGoPrev(list)
  /\ list' = LoadEffect([list EXCEPT !.currentPage = newPage,
                                     !.clicks = @ + 1,
                                     !.last = ListStep("pageChange", newPage, 0, 0)])
  /\ UNCHANGED << formVars, api, detail >>

\* A click on the delete button of a row: the confirmation dialog opens.
AskDelete(row) ==
  /\ list.mounted /\ Deletable(list.page)
  /\ list.clicks < MaxClicks
  /\ ~list.loading /\ ~list.error /\ row \in list.rows
  /\ list.toDelete = 0
  /\ list' = [list EXCEPT !.toDelete = row, !.clicks = @ + 1,
                          !.last = ListStep("ask", 0, 0, row)]
  /\ UNCHANGED << formVars, api, detail >>

\* A click on Cancel (or the dialog is dismissed): set...ToDelete(null).
CancelDelete ==
  /\ list.mounted /\ list.toDelete # 0
  /\ list.clicks < MaxClicks
  /\ list' = [list EXCEPT !.toDelete = 0, !.clicks = @ + 1,
                          !.last = ListStep("cancel", 0, 0, list.toDelete)]
  /\ UNCHANGED << formVars, api, detail >>

\* A click on the action button of the dialog: handleDeleteConfirm up to
\* its await.
ConfirmDelete ==
  /\ list.mounted /\ list.toDelete # 0 /\ ~list.isDeleting
  /\ list.clicks < MaxClicks
  /\ list' = [list EXCEPT !.isDeleting = TRUE, !.clicks = @ + 1,
                          !.deletes = @ \cup {list.toDelete},
                          !.deleteCalls = @ + 1,
                          !.last = ListStep("confirm", 0, 0, list.toDelete)]
  /\ UNCHANGED << formVars, api, detail >>

\* The delete call resolves: the row is filtered out, the dialog closed.
DeleteSucceeded(row) ==
  /\ row \in list.deletes
  /\ list' = [list EXCEPT !.deletes = @ \ {row}, !.deleted = @ \cup {row},
                          !.rows = RowsAfterDelete(@, row),
                          !.toDelete = 0, !.isDeleting = FALSE,
                          !.last = ListStep("deleted", 0, 0, row)]
  /\ UNCHANGED << formVars, api, detail >>

\* The delete call rejects: a toast, nothing else.
DeleteFailed(row) ==
  /\ row \in list.deletes
  /\ list' = [list EXCEPT !.deletes = @ \ {row}, !.isDeleting = FALSE,
                          !.last = ListStep("deleteFailed", 0, 0, row)]
  /\ UNCHANGED << formVars, api, detail >>

ListNext ==
  \/ \E fetch \in list.fetches : \E count \in Counts : PageFetched(fetch, count)
  \/ \E fetch \in list.fetches : PageFetchFailed(fetch)
  \/ \E newPage \in {list.currentPage - 1, list.currentPage + 1} :
       PageChange(newPage)
  \/ \E row \in list.rows : AskDelete(row)
  \/ CancelDelete
  \/ ConfirmDelete
  \/ \E row \in list.deletes : DeleteSucceeded(row)
  \/ \E row \in list.deletes : DeleteFailed(row)

ListSpec == ListInit /\ [][ListNext]_vars

(***************************************************************************)
(* Properties of the list pages.                                           *)
(***************************************************************************)
\* n is the ceiling of count / PAGE_SIZE.
IsTotalPagesOf(n, count) ==
  n * PAGE_SIZE >= count /\ (n - 1) * PAGE_SIZE < count

\* The last step was the success of a page fetch on a paginated page.
PageJustFetched ==
  list.mounted /\ Paginated(list.page) /\ list.last.kind = "fetched"

DeletePageStep ==
  list.mounted /\ Deletable(list.page) /\ list.loaded /\ list' # list

\* The step removed exactly the row of a confirmed delete call, at the
\* success of that call.
RemovedConfirmedRow ==
  /\ list'.last.kind = "deleted"
  /\ list'.last.row \in list.deletes
  /\ list'.rows = list.rows \ {list'.last.row}

\* The step made no network call.
NoNetworkCall ==
  list'.fetchCalls = list.fetchCalls /\ list'.deleteCalls = list.deleteCalls

\* Cancelling and a failed delete leave the list as it was, and cancelling
\* calls nothing.
CancelAndFailureKeepRows ==
  /\ list'.last.kind = "cancel" => NoNetworkCall /\ list'.rows = list.rows
  /\ list'.last.kind = "deleteFailed" => list'.rows = list.rows

AwaitedCalculation(cy) == FieldConnections(cfg)[cy.conn].calculations[cy.idx]

\* The row the cycle cy matched.
MatchedRow(cy) == FieldConnections(cfg)[cy.conn].lookupSet[cy.row]

\* The calculations of the connection the last step ran.
LastCalculations ==
  IF lastStep.conn = 0 THEN << >>
  ELSE FieldConnections(cfg)[lastStep.conn].calculations

\* The last step was a change that matched a row, and calculation i of its
\* connection finds no trigger value in the row.
TriggerAbsentAt(i) ==
  /\ lastStep.kind = "change" /\ lastStep.conn # 0 /\ lastStep.row # 0
  /\ LET conn == FieldConnections(cfg)[lastStep.conn]
     IN  Prop(conn.lookupSet[lastStep.row],
              conn.calculations[i].calculationTriggerField)
           \in {Undef, Null, Str("")}

\* C21: the value passed to a calculator is the trigger-field value of the
\* matched lookup row, never the live form value of that field; when the
\* matched row's trigger value is undefined, null or empty, the calculator
\* is not invoked, the target field is set to its configured default and
\* its status is idle.
C21_CalculatorInputIsRowValue ==
  /\ \A j \in DOMAIN cycles :
       /\ cycles[j].input =
            Prop(MatchedRow(cycles[j]),
                 AwaitedCalculation(cycles[j]).calculationTriggerField)
       /\ cycles[j].input \notin {Undef, Null, Str("")}
  /\ \A i \in DOMAIN LastCalculations :
       TriggerAbsentAt(i) =>
         LET f == FieldConnections(cfg)[lastStep.conn].calculations[i].targetField
         IN  /\ \A j \in DOMAIN cycles :
                  cycles[j].conn = lastStep.conn => cycles[j].idx # i
             /\ lastStep.ran = "done"
             /\ form.values[f] = Coalesce(getFieldConfig(cfg, f).defaultValue, Null)
             /\ calculationStateRef[f] = "idle"
             /\ formState.calculationState[f] = "idle"

\* The user typed "usd" as the code: the calculator awaited was called with
\* the row's "USD" while the form still holds "usd".
C21_Witness ==
  /\ cfg = "currency"
  /\ Len(cycles) = 1
  /\ cycles[1].input = Str("USD")
  /\ form.values["code"] = Str("usd")
  /\ lastStep.kind = "change" /\ lastStep.ran = "await"

\* a equals b exactly, or up to case when both are texts.
LookupEqual(a, b) ==
  IF a.t = "string" /\ b.t = "string"
  THEN ToLowerCase(a.v) = ToLowerCase(b.v)
  ELSE a = b /\ a # NaN

\* The rows of the connection of the last step whose source-field value
\* equals the value the source field holds.
MatchingRows ==
  LET conn == FieldConnections(cfg)[lastStep.conn]
  IN  {i \in DOMAIN conn.lookupSet :
         LookupEqual(Prop(conn.lookupSet[i], conn.sourceField),
                     form.values[conn.sourceField])}

\* The first of the matching rows, 0 when there is none.
FirstMatchingRow ==
  IF MatchingRows = {} THEN 0
  ELSE CHOOSE i \in MatchingRows : \A j \in MatchingRows : i <= j

\* C22: the lookup of a source value selects a row by exact equality, or by
\* case-insensitive equality when both the source value and the row value
\* are text; when several rows match, the first matching row in lookup-set
\* order is the one whose values are fanned out and passed to the
\* calculations.
C22_FirstMatchingRowIsUsed ==
  CycleStarted(lastStep) =>
    LET conn == FieldConnections(cfg)[lastStep.conn]
        r == FirstMatchingRow
    IN  /\ lastStep.row = r
        /\ r # 0 =>
             \A f \in (Range(conn.targetFields) \ {conn.sourceField})
                        \ Range(CalculationTargets(conn)) :
               form.values[f] \in C2_Expected(cfg, conn.lookupSet[r], f)
        /\ lastStep.ran = "await" =>
             /\ cycles[Len(cycles)].row = r
             /\ cycles[Len(cycles)].input =
                  Prop(conn.lookupSet[r],
                       conn.calculations[cycles[Len(cycles)].idx]
                         .calculationTriggerField)

\* The sample form: label "L2" equals the label of rows 3 ("L2") and 4
\* ("l2"); row 3 was taken and its key passed to the calculator.
C22_Witness ==
  /\ cfg = "sample"
  /\ CycleStarted(lastStep)
  /\ lastStep.field = "label"
  /\ MatchingRows = {3, 4}
  /\ lastStep.row = 3
  /\ cycles[Len(cycles)].input = Str("K2")

(***************************************************************************)
(* Properties of the loading of dependencies and entity.                   *)
(***************************************************************************)
\* The dependency fetches in a given state.
DepsIn(status) == {k \in Dependencies(cfg) : depsLoad.status[k] = status}

\* C23: all declared dependency fetches are started together, and while the
\* dependency effect is live their option lists are written to
\* dependencyData in a single write only after every fetch has succeeded;
\* if any fetch fails, the dependency-error flag is set and loadingDeps is
\* cleared, the other fetches go on (they are pending or settled, never
\* canceled), and dependencyData is left unchanged.
C23_DependenciesAllOrNothing ==
  /\ DOMAIN depsLoad.status = Dependencies(cfg)
  /\ \A k \in Dependencies(cfg) : depsLoad.status[k] \in {"pending", "ok", "failed"}
  /\ formState.dependencyData \in {{}, Dependencies(cfg)}
  /\ formState.dependencyData # {} => DepsIn("ok") = Dependencies(cfg)
  /\ (depsLoad.isMounted /\ Dependencies(cfg) # {}) =>
       /\ DepsIn("ok") = Dependencies(cfg) =>
            /\ formState.dependencyData = Dependencies(cfg)
            /\ ~formState.loadingDeps /\ ~Truthy(formState.depsError)
       /\ DepsIn("failed") # {} =>
            /\ Truthy(formState.depsError)
            /\ ~formState.loadingDeps
            /\ formState.dependencyData = {}
       /\ (DepsIn("pending") # {} /\ DepsIn("failed") = {}) =>
            /\ formState.loadingDeps
            /\ formState.dependencyData = {}

\* One of the two dependency fetches of the sample form failed and the other
\* succeeded: the error flag is set and no options were merged.
C23_Witness ==
  /\ cfg = "sample"
  /\ depsLoad.isMounted
  /\ depsLoad.status["options"] = "ok"
  /\ depsLoad.status["units"] = "failed"
  /\ Truthy(formState.depsError)
  /\ formState.dependencyData = {}

\* The fields that are a target field and a calculation target of the
\* connection k, other than its source.
TwiceTargets(k) ==
  LET conn == FieldConnections(cfg)[k]
  IN (Range(conn.targetFields) \cap Range(CalculationTargets(conn)))
       \ {conn.sourceField}

\* The outcome of a calculation on field f: the transformed result, or the
\* configured default when the calculator gave null or undefined.
CalculationOutcome(f, result) ==
  IF result \in {Null, Undef}
  THEN Coalesce(getFieldConfig(cfg, f).defaultValue, Null)
  ELSE TransformInput(cfg, f, result)

\* C26: for a field that is both a target field and a calculation target of
\* one connection (rateToEuro in every currency connection), the match
\* branch writes the row's value or the default first, while the calculator
\* is awaited; when the calculator has settled and the cycle has completed,
\* the field holds the calculation outcome: the transformed result on
\* success, the configured default on failure.
C26_CalculationWriteComesLast ==
  /\ []((lastStep.kind = "change" /\ lastStep.ran = "await" /\ lastStep.row # 0) =>
         \A f \in TwiceTargets(lastStep.conn) :
           /\ C2_TargetHolds(f)
           /\ calculationStateRef[f] = "pending")
  /\ [][\A j \in DOMAIN cycles :
          \A f \in TwiceTargets(cycles[j].conn) :
            /\ \A result \in CalculatorResultsOf(cfg) :
                 (CalculatorResolves(j, result) /\ lastStep'.ran = "done"
                    /\ lastStep'.field = f) =>
                   form'.values[f] = CalculationOutcome(f, result)
            /\ (CalculatorRejects(j) /\ lastStep'.ran = "done"
                   /\ lastStep'.field = f) =>
                 form'.values[f] = CalculationOutcome(f, Null)]_vars

\* A cycle of a currency connection completed with a rate: rateToEuro holds
\* the rate, which is not what the fan-out of the matched row had written.
C26_Witness ==
  /\ cfg = "currency"
  /\ CycleCompletedOnMatch
  /\ lastStep.kind = "calculationSuccess"
  /\ lastStep.field = "rateToEuro"
  /\ "rateToEuro" \in TwiceTargets(lastStep.conn)
  /\ form.values["rateToEuro"] = Num("2")
  /\ ~C2_TargetHolds("rateToEuro")

\* C25: a response of an entity fetch or of the dependency fetches, success
\* or failure, that arrives after its effect was cleaned up (the identifier
\* changed or the form was unmounted) writes no form state, does not reset
\* the form values and raises no toast.
C25_StaleResponsesWriteNothing ==
  [][lastStep'.kind = "dropped" => UNCHANGED << formState, form, toasts >>]_vars

\* The response of a fetch for an identifier the form has left arrived
\* while the form is still on screen.
C25_Witness ==
  /\ lastStep.kind = "dropped"
  /\ mounted
  /\ \E c \in calls : c.fn = "fetchOne" /\ c.id # id

(***************************************************************************)
(* Properties of the guard flag.                                           *)
(***************************************************************************)
\* The last step was a change of a source field by the user.
SourceChanged(step) == step.kind = "change" /\ step.conn # 0

\* C24: the guard flag is set if and only if a propagation cycle is in
\* flight (awaiting a calculator): it is cleared at the end of every cycle
\* whatever the outcome; provided every calculator call eventually settles
\* the flag is eventually cleared, and a source-field change made while it
\* is clear is processed.
C24_GuardSetIffCycleInFlight ==
  /\ [](isProcessingConnectionRef <=> cycles # << >>)
  /\ [](lastStep.ran = "done" => ~isProcessingConnectionRef)
  /\ isProcessingConnectionRef ~> ~isProcessingConnectionRef
  /\ [][(SourceChanged(lastStep') /\ ~isProcessingConnectionRef)
          => CycleStarted(lastStep')]_vars

\* A cycle ended on a calculator that rejected, the flag is clear again.
C24_Witness ==
  /\ lastStep.kind = "calculationError"
  /\ lastStep.ran = "done"
  /\ "Calculation Error" \in toasts
  /\ ~isProcessingConnectionRef
  /\ cycles = << >>

(***************************************************************************)
(* Properties of submission.                                               *)
(***************************************************************************)
\* C27: a submission cannot start while a propagation cycle is in flight:
\* when a create/update call is issued with the values of the form, no
\* cycle awaits a calculator and no calculation target is pending.
C27_NoSubmitDuringCycle ==
  lastStep.kind = "submit" =>
    /\ cycles = << >>
    /\ ~isProcessingConnectionRef
    /\ \A f \in FieldNames(cfg) : calculationStateRef[f] # "pending"

\* The mounted edit form has been reset to the loaded entity and its last
\* submission was rejected; no dependency failed.
SubmitFailedAfterLoad ==
  /\ mounted
  /\ isEditMode
  /\ form.defaultValues = FormDataOfEntity(cfg)
  /\ formState.error = SaveErrorMessage
  /\ <<"update", "rejected">> \in outcomes
  /\ ~Truthy(formState.depsError)

\* C28: in edit mode, once the entity has loaded, a failed submission never
\* replaces the form by the "Error Loading" screen, whether or not the form
\* is dirty.
C28_FailedSubmitKeepsForm == SubmitFailedAfterLoad => View # "error"

(***************************************************************************)
(* Properties of paging.                                                   *)
(***************************************************************************)
\* The server has reported the same count in every response so far.
StableCount == Cardinality(list.counts) <= 1

\* C29: on the paginated list pages, under every sequence of Next/Previous
\* clicks and fetch completions, including clicks made while a page fetch
\* is in flight, currentPage is at least 1 and does not exceed the total
\* number of pages computed from the server count, when that is at least 1.
C29_CurrentPageWithinTotal ==
  (Paginated(list.page) /\ StableCount /\ list.totalPages >= 1) =>
    /\ list.currentPage >= 1
    /\ list.currentPage <= list.totalPages

\* The page the server holds row r on.
PageOfRow(r) == (r - 1) \div PAGE_SIZE + 1

\* C30: on the paginated list pages, once every page fetch in flight has
\* settled (none failed), the rows displayed are rows of the page shown,
\* and Next is available exactly when the page shown is before the last
\* page, whatever the order in which the responses arrived.
C30_SettledShowsCurrentPage ==
  (Paginated(list.page) /\ StableCount /\ list.loaded /\ list.fetches = {}
     /\ ~list.error) =>
    /\ \A r \in list.rows : PageOfRow(r) = list.currentPage
    /\ canGoNext(list) <=> list.currentPage < list.totalPages

====
